---- MODULE Spec2Model ----
(***************************************************************************)
(* The order-entry form OrderForm of src/components/orders/order-form.tsx. *)
(*                                                                         *)
(* State: the six useState cells of the component, the position of the     *)
(* one running handleSubmit invocation together with the values its        *)
(* closure captured, the request it has in flight, the data store's two    *)
(* tables and the router's current route.                                  *)
(*                                                                         *)
(* Conventions.                                                            *)
(*  - Item lists are sequences; position i of the model is index i-1 of    *)
(*    the JavaScript array.                                                *)
(*  - Money is counted in units of 1/Scale (the unit-price input has       *)
(*    step="0.01"), so quantity * unitPrice stays an integer.              *)
(*  - The text of an input field is a sequence of one-character strings.   *)
(*  - null is the string Null; an absent record is a record of the same    *)
(*    shape with empty fields; a route is the sequence of its segments.    *)
(***************************************************************************)
EXTENDS Integers, Sequences, FiniteSets, TLC

VARIABLES customerId, paymentMethod, notes, orderItems, isSubmitting, error,
          pc, closure, request, order, orders, order_items, route

vars == <<customerId, paymentMethod, notes, orderItems, isSubmitting, error,
          pc, closure, request, order, orders, order_items, route>>

draft == <<customerId, paymentMethod, notes, orderItems>>
status == <<isSubmitting, error>>
submission == <<pc, closure, request, order>>
store == <<orders, order_items>>

(***************************************************************************)
(* Bounds of the exploration.                                              *)
(***************************************************************************)
\* longest item list the user builds
MaxItems == 2
\* number of order records the store accepts before it refuses inserts
MaxOrders == 2

(***************************************************************************)
(* Program constants and props.                                            *)
(***************************************************************************)
\* money units per currency unit: step="0.01" on the unit-price input
Scale == 100

Null == "null"

\* the products prop: catalog ids are unique; A has less stock than a
\* quantity of 2 asks for
products ==
  << [id |-> "A", price |-> 10 * Scale, stock_quantity |-> 1],
     [id |-> "B", price |-> 5 * Scale, stock_quantity |-> 3] >>

\* the customers prop
customers == << [id |-> "c1"] >>

\* the values of the payment-method Select
PaymentMethods == {"cash", "credit_card", "debit_card"}

\* texts of the notes textarea (sequences of characters)
NotesTexts == { <<>>, <<" ", "g", "w", " ">> }

\* an id that no product of the catalog carries
UnknownProductId == "Z"

ProductIds == {products[k].id : k \in 1..Len(products)}

\* texts a type="number" input hands to onChange: a valid number or ""
DraftTexts == { <<>>, <<"0">>, <<"-", "1">>, <<"2", ".", "5">> }

\* messages of the error objects the store returns ("" has no message)
StoreMessages == {"", "insert failed"}

ValidationMessage == "Please add at least one item to the order"
FallbackMessage == "An error occurred"

(***************************************************************************)
(* Number.parseInt / Number.parseFloat on the text of an input, and the    *)
(* `|| fallback` applied to the result. A parse result is a record         *)
(* [nan, val]; NaN is [nan |-> TRUE].                                      *)
(***************************************************************************)
DigitChars == {"0", "1", "2", "3", "4", "5", "6", "7", "8", "9"}

DigitVal(c) ==
  CASE c = "0" -> 0 [] c = "1" -> 1 [] c = "2" -> 2 [] c = "3" -> 3
    [] c = "4" -> 4 [] c = "5" -> 5 [] c = "6" -> 6 [] c = "7" -> 7
    [] c = "8" -> 8 [] c = "9" -> 9

RECURSIVE LeadingDigits(_)
LeadingDigits(s) ==
  IF s # <<>> /\ Head(s) \in DigitChars
    THEN <<Head(s)>> \o LeadingDigits(Tail(s))
    ELSE <<>>

RECURSIVE DigitsValue(_, _)
DigitsValue(s, acc) ==
  IF s = <<>> THEN acc ELSE DigitsValue(Tail(s), 10 * acc + DigitVal(Head(s)))

HasSign(text) == text # <<>> /\ Head(text) \in {"-", "+"}
Unsigned(text) == IF HasSign(text) THEN Tail(text) ELSE text
SignOf(text) == IF text # <<>> /\ Head(text) = "-" THEN -1 ELSE 1

NaN == [nan |-> TRUE, val |-> 0]
Num(v) == [nan |-> FALSE, val |-> v]

\* Number.parseInt(text): an optional sign, then the longest run of digits;
\* whatever follows (a fraction, say) is ignored; no digit at all gives NaN
parseInt(text) ==
  LET ds == LeadingDigits(Unsigned(text))
  IN  IF ds = <<>> THEN NaN ELSE Num(SignOf(text) * DigitsValue(ds, 0))

\* Number.parseFloat(text), in units of 1/Scale: an optional sign, the
\* integer digits, and after a "." the fraction digits (the step of the
\* input keeps them to two)
parseFloat(text) ==
  LET body == Unsigned(text)
      ip   == LeadingDigits(body)
      rest == SubSeq(body, Len(ip) + 1, Len(body))
      fd   == IF rest # <<>> /\ Head(rest) = "." THEN LeadingDigits(Tail(rest)) ELSE <<>>
      f2   == SubSeq(fd \o <<"0", "0">>, 1, 2)
  IN  IF ip = <<>> /\ fd = <<>>
        THEN NaN
        ELSE Num(SignOf(text) * (DigitsValue(ip, 0) * Scale + DigitsValue(f2, 0)))

\* JavaScript `n || fallback` on a number: NaN and 0 are falsy
OrElse(n, fallback) == IF n.nan \/ n.val = 0 THEN fallback ELSE n.val

\* the value the quantity input passes to updateOrderItem
QuantityValue(text) == OrElse(parseInt(text), 1)

\* the value the unit-price input passes to updateOrderItem
UnitPriceValue(text) == OrElse(parseFloat(text), 0)

(***************************************************************************)
(* The item list: addOrderItem, removeOrderItem, updateOrderItem,          *)
(* calculateTotal.                                                         *)
(***************************************************************************)
NewItem == [productId |-> "", quantity |-> 1, unitPrice |-> 0]

\* products.find((p) => p.id === value): position of the first match, 0 if none
RECURSIVE FindFrom(_, _)
FindFrom(value, k) ==
  IF k > Len(products) THEN 0
  ELSE IF products[k].id = value THEN k
  ELSE FindFrom(value, k + 1)

FindProduct(value) == FindFrom(value, 1)

addOrderItem(items) == Append(items, NewItem)

\* mutant: the filter compares against the position after the target
removeOrderItemOffByOne(items, index) ==
  [ j \in 1..(IF index < Len(items) THEN Len(items) - 1 ELSE Len(items)) |->
      IF j <= index THEN items[j] ELSE items[j + 1] ]

\* items.filter((_, i) => i !== index)
RECURSIVE FilterNotAt(_, _, _)
FilterNotAt(items, index, i) ==
  IF i > Len(items) THEN <<>>
  ELSE (IF i # index THEN <<items[i]>> ELSE <<>>) \o FilterNotAt(items, index, i + 1)

removeOrderItem(items, index) == FilterNotAt(items, index, 1)

\* mutant: a product selection fills the unit price only while it is still 0
updateOrderItemKeepsManualPrice(items, index, field, value) ==
  IF field = "productId"
    THEN LET k == FindFrom(value, 1)
         IN  IF k # 0
               THEN [items EXCEPT ![index] =
                       [@ EXCEPT !.productId = value,
                                 !.unitPrice = IF @ = 0 THEN products[k].price ELSE @]]
               ELSE items
    ELSE [items EXCEPT ![index] = [@ EXCEPT ![field] = value]]

\* field "productId" always comes with a string value (the Select's)
updateOrderItem(items, index, field, value) ==
  IF field = "productId"
    THEN LET k == FindProduct(value)
         IN  IF k # 0
               THEN [items EXCEPT ![index] =
                       [@ EXCEPT !.productId = value, !.unitPrice = products[k].price]]
               ELSE items
    ELSE [items EXCEPT ![index] = [@ EXCEPT ![field] = value]]

\* items.reduce((total, item) => total + item.quantity * item.unitPrice, 0)
RECURSIVE Reduce(_, _, _)
Reduce(items, i, total) ==
  IF i > Len(items) THEN total
  ELSE Reduce(items, i + 1, total + items[i].quantity * items[i].unitPrice)

\* mutant: the fold starts at the second item
calculateTotalSkipsFirst(items) == Reduce(items, 2, 0)

calculateTotal(items) == Reduce(items, 1, 0)

\* the "Only n in stock" paragraph of an item's row
StockWarning(item) ==
  LET k == FindProduct(item.productId)
  IN  k # 0 /\ products[k].stock_quantity < item.quantity

(***************************************************************************)
(* Initial state: the useState defaults, no handler running, empty store.  *)
(***************************************************************************)
NoClosure == [orderItems |-> <<>>, customerId |-> "", paymentMethod |-> "", notes |-> <<>>]
NoRoute == <<>>
NoRequest == [table |-> "", records |-> <<>>]
NoOrder == [id |-> 0, total_amount |-> 0]

Init ==
  /\ customerId = "walk-in"
  /\ paymentMethod = "cash"
  /\ notes = <<>>
  /\ orderItems = <<>>
  /\ isSubmitting = FALSE
  /\ error = Null
  /\ pc = "idle"
  /\ closure = NoClosure
  /\ request = NoRequest
  /\ order = NoOrder
  /\ orders = {}
  /\ order_items = <<>>
  /\ route = NoRoute

\* the form is on screen until router.push has replaced the page
Mounted == route = NoRoute

(***************************************************************************)
(* User actions on the draft. The inputs stay enabled while submitting.    *)
(***************************************************************************)
AddItem ==
  /\ Mounted
  /\ Len(orderItems) < MaxItems
  /\ orderItems' = addOrderItem(orderItems)
  /\ UNCHANGED <<customerId, paymentMethod, notes, status, submission, store, route>>

RemoveItem(index) ==
  /\ Mounted
  /\ index \in 1..Len(orderItems)
  /\ orderItems' = removeOrderItem(orderItems, index)
  /\ UNCHANGED <<customerId, paymentMethod, notes, status, submission, store, route>>

UpdateProductId(index, value) ==
  /\ Mounted
  /\ index \in 1..Len(orderItems)
  /\ orderItems' = updateOrderItem(orderItems, index, "productId", value)
  /\ UNCHANGED <<customerId, paymentMethod, notes, status, submission, store, route>>

QuantityInput(index, text) ==
  /\ Mounted
  /\ index \in 1..Len(orderItems)
  /\ orderItems' = updateOrderItem(orderItems, index, "quantity", QuantityValue(text))
  /\ UNCHANGED <<customerId, paymentMethod, notes, status, submission, store, route>>

UnitPriceInput(index, text) ==
  /\ Mounted
  /\ index \in 1..Len(orderItems)
  /\ orderItems' = updateOrderItem(orderItems, index, "unitPrice", UnitPriceValue(text))
  /\ UNCHANGED <<customerId, paymentMethod, notes, status, submission, store, route>>

SetCustomerId(value) ==
  /\ Mounted
  /\ customerId' = value
  /\ UNCHANGED <<paymentMethod, notes, orderItems, status, submission, store, route>>

SetPaymentMethod(value) ==
  /\ Mounted
  /\ paymentMethod' = value
  /\ UNCHANGED <<customerId, notes, orderItems, status, submission, store, route>>

SetNotes(value) ==
  /\ Mounted
  /\ notes' = value
  /\ UNCHANGED <<customerId, paymentMethod, orderItems, status, submission, store, route>>

CustomerChoices == {"walk-in"} \cup {customers[k].id : k \in 1..Len(customers)}

Positions == 1..(MaxItems + 1)

(***************************************************************************)
(* SpecDraft: the draft under every edit the form offers, plus a direct    *)
(* updateOrderItem call with an id the catalog does not hold.              *)
(***************************************************************************)
SelectProduct == \E index \in Positions, value \in ProductIds \cup {UnknownProductId} :
                   UpdateProductId(index, value)
EditQuantity == \E index \in Positions, text \in DraftTexts : QuantityInput(index, text)
EditUnitPrice == \E index \in Positions, text \in DraftTexts : UnitPriceInput(index, text)
ClickRemove == \E index \in Positions : RemoveItem(index)
ChooseCustomer == \E value \in CustomerChoices : SetCustomerId(value)
ChoosePayment == \E value \in PaymentMethods : SetPaymentMethod(value)
TypeNotes == \E value \in NotesTexts : SetNotes(value)

NextDraft ==
  \/ AddItem
  \/ ClickRemove
  \/ SelectProduct
  \/ EditQuantity
  \/ EditUnitPrice
  \/ ChooseCustomer
  \/ ChoosePayment
  \/ TypeNotes

SpecDraft == Init /\ [][NextDraft]_vars

(***************************************************************************)
(* handleSubmit. The handler runs to its first await in one step; each     *)
(* later step is the store's answer to the request in flight followed by   *)
(* the handler's continuation up to its next await or its end. The         *)
(* continuation reads the values the handler captured when it was invoked  *)
(* (closure), never the cells' later values. State updates made in one     *)
(* step are seen together, after the step.                                 *)
(***************************************************************************)
\* text.trim() on a sequence of characters
RECURSIVE TrimLeft(_)
TrimLeft(text) ==
  IF text # <<>> /\ Head(text) = " " THEN TrimLeft(Tail(text)) ELSE text

RECURSIVE TrimRight(_)
TrimRight(text) ==
  IF text # <<>> /\ text[Len(text)] = " "
    THEN TrimRight(SubSeq(text, 1, Len(text) - 1))
    ELSE text

Trim(text) == TrimRight(TrimLeft(text))

\* orderData, from the values of the render the handler was created in
OrderData(c) ==
  [ customer_id    |-> IF c.customerId = "walk-in" THEN Null ELSE c.customerId,
    total_amount   |-> calculateTotal(c.orderItems),
    status         |-> "pending",
    payment_method |-> IF c.paymentMethod = "" THEN Null ELSE c.paymentMethod,
    notes          |-> IF Trim(c.notes) = <<>> THEN Null ELSE Trim(c.notes) ]

\* orderItemsData: one row per item of the list the handler captured
OrderItemsData(items, orderId) ==
  [ i \in 1..Len(items) |->
      [ order_id    |-> orderId,
        product_id  |-> items[i].productId,
        quantity    |-> items[i].quantity,
        unit_price  |-> items[i].unitPrice,
        total_price |-> items[i].quantity * items[i].unitPrice ] ]

\* the values of the current render, which a handler created in it captures
Render ==
  [ orderItems |-> orderItems, customerId |-> customerId,
    paymentMethod |-> paymentMethod, notes |-> notes ]

\* error.message || "An error occurred"
ErrorText(message) == IF message = "" THEN FallbackMessage ELSE message

\* mutant: the handler has no empty-list check
HandleSubmitNoGuard ==
  /\ Mounted
  /\ ~isSubmitting
  /\ isSubmitting' = TRUE
  /\ error' = Null
  /\ closure' = Render
  /\ request' = [table |-> "orders", records |-> <<OrderData(Render)>>]
  /\ pc' = "await_order"
  /\ order' = order
  /\ UNCHANGED <<draft, store, route>>

\* mutant: the handler refuses a list with an item short of stock
HandleSubmitChecksStock ==
  /\ Mounted
  /\ ~isSubmitting
  /\ \A i \in DOMAIN orderItems : ~StockWarning(orderItems[i])
  /\ IF Len(orderItems) = 0
       THEN /\ error' = ValidationMessage
            /\ isSubmitting' = FALSE
            /\ UNCHANGED submission
       ELSE /\ isSubmitting' = TRUE
            /\ error' = Null
            /\ closure' = Render
            /\ request' = [table |-> "orders", records |-> <<OrderData(Render)>>]
            /\ pc' = "await_order"
            /\ order' = order
  /\ UNCHANGED <<draft, store, route>>

\* the form's submit event. The submit button is disabled while
\* isSubmitting, so no second handler starts while one is running; the
\* event dispatched on the form itself enters the handler with an empty list.
HandleSubmit ==
  /\ Mounted
  /\ ~isSubmitting
  /\ IF Len(orderItems) = 0
       THEN /\ error' = ValidationMessage
            /\ isSubmitting' = FALSE
            /\ UNCHANGED submission
       ELSE /\ isSubmitting' = TRUE
            /\ error' = Null
            /\ closure' = Render
            /\ request' = [table |-> "orders", records |-> <<OrderData(Render)>>]
            /\ pc' = "await_order"
            /\ order' = order
  /\ UNCHANGED <<draft, store, route>>

\* mutant: the continuation maps the current list, not the captured one
OrderInsertOkReadsDraft ==
  /\ pc = "await_order"
  /\ Cardinality(orders) < MaxOrders
  /\ LET id == Cardinality(orders) + 1
     IN  /\ orders' = orders \cup {id}
         /\ order' = [id |-> id, total_amount |-> request.records[1].total_amount]
         /\ request' = [table |-> "order_items",
                        records |-> OrderItemsData(orderItems, id)]
  /\ pc' = "await_items"
  /\ UNCHANGED <<draft, status, closure, order_items, route>>

\* supabase.from("orders").insert([orderData]).select().single() resolves
\* with the created row; the handler goes on to issue the order_items insert
OrderInsertOk ==
  /\ pc = "await_order"
  /\ Cardinality(orders) < MaxOrders
  /\ LET id == Cardinality(orders) + 1
     IN  /\ orders' = orders \cup {id}
         /\ order' = [id |-> id, total_amount |-> request.records[1].total_amount]
         /\ request' = [table |-> "order_items",
                        records |-> OrderItemsData(closure.orderItems, id)]
  /\ pc' = "await_items"
  /\ UNCHANGED <<draft, status, closure, order_items, route>>

\* mutant: the error of the orders insert is not thrown
OrderInsertErrorGoesOn(message) ==
  /\ pc = "await_order"
  /\ order' = NoOrder
  /\ request' = [table |-> "order_items",
                 records |-> OrderItemsData(closure.orderItems, 0)]
  /\ pc' = "await_items"
  /\ UNCHANGED <<draft, status, closure, store, route>>

\* the orders insert resolves with an error: throw, catch, finally
OrderInsertError(message) ==
  /\ pc = "await_order"
  /\ error' = ErrorText(message)
  /\ isSubmitting' = FALSE
  /\ pc' = "idle"
  /\ closure' = NoClosure
  /\ request' = NoRequest
  /\ order' = NoOrder
  /\ UNCHANGED <<draft, store, route>>

\* the order_items insert resolves without error: router.push, finally
ItemsInsertOk ==
  /\ pc = "await_items"
  /\ order_items' = order_items \o request.records
  /\ route' = <<"dashboard", "orders", order.id>>
  /\ isSubmitting' = FALSE
  /\ pc' = "idle"
  /\ closure' = NoClosure
  /\ request' = NoRequest
  /\ order' = NoOrder
  /\ UNCHANGED <<draft, error, orders>>

\* mutant: the catch block deletes the order it created
ItemsInsertErrorRollsBack(message) ==
  /\ pc = "await_items"
  /\ orders' = orders \ {order.id}
  /\ error' = ErrorText(message)
  /\ isSubmitting' = FALSE
  /\ pc' = "idle"
  /\ closure' = NoClosure
  /\ request' = NoRequest
  /\ order' = NoOrder
  /\ UNCHANGED <<draft, order_items, route>>

\* mutant: isSubmitting is reset on the success path only, not in a finally
ItemsInsertErrorNoFinally(message) ==
  /\ pc = "await_items"
  /\ error' = ErrorText(message)
  /\ pc' = "idle"
  /\ closure' = NoClosure
  /\ request' = NoRequest
  /\ order' = NoOrder
  /\ UNCHANGED <<draft, isSubmitting, store, route>>

\* the order_items insert resolves with an error: throw, catch, finally
ItemsInsertError(message) ==
  /\ pc = "await_items"
  /\ error' = ErrorText(message)
  /\ isSubmitting' = FALSE
  /\ pc' = "idle"
  /\ closure' = NoClosure
  /\ request' = NoRequest
  /\ order' = NoOrder
  /\ UNCHANGED <<draft, store, route>>

OrderInsertFails == \E message \in StoreMessages : OrderInsertError(message)
ItemsInsertFails == \E message \in StoreMessages : ItemsInsertError(message)

\* the store answers the request in flight
StoreAnswers == OrderInsertOk \/ OrderInsertFails \/ ItemsInsertOk \/ ItemsInsertFails

(***************************************************************************)
(* Spec: the form with submission. The user adds and removes items, picks  *)
(* products and raises quantities, also while a request is in flight.      *)
(***************************************************************************)
\* the quantity texts typed in Spec
SubmitTexts == { <<"2">> }

PickProduct == \E index \in Positions, value \in ProductIds : UpdateProductId(index, value)
RaiseQuantity == \E index \in Positions, text \in SubmitTexts : QuantityInput(index, text)

Next ==
  \/ AddItem
  \/ ClickRemove
  \/ PickProduct
  \/ RaiseQuantity
  \/ HandleSubmit
  \/ OrderInsertOk
  \/ OrderInsertFails
  \/ ItemsInsertOk
  \/ ItemsInsertFails

Spec == Init /\ [][Next]_vars

\* every request the handler issues is answered
SpecFair == Spec /\ WF_vars(StoreAnswers)

(***************************************************************************)
(* Properties of the draft, checked under SpecDraft.                       *)
(***************************************************************************)
\* the sum of quantity * unitPrice over a set of positions, in any order
RECURSIVE SumOver(_, _)
SumOver(items, S) ==
  IF S = {} THEN 0
  ELSE LET i == CHOOSE j \in S : TRUE
       IN  items[i].quantity * items[i].unitPrice + SumOver(items, S \ {i})

\* v is the id of a catalog product whose price is p
CatalogPrice(v, p) == \E k \in DOMAIN products : products[k].id = v /\ products[k].price = p
InCatalog(v) == \E k \in DOMAIN products : products[k].id = v

\* C5: after any sequence of addItem, removeItem and updateItem calls,
\* calculateTotal() is the sum over the current items of quantity *
\* unitPrice, and 0 for the empty list.
C5_TotalIsSum ==
  /\ calculateTotal(orderItems) = SumOver(orderItems, DOMAIN orderItems)
  /\ (Len(orderItems) = 0 => calculateTotal(orderItems) = 0)

\* the example of C5: items (2 at 10) and (1 at 5) total 25
C5_Witness ==
  /\ Len(orderItems) = 2
  /\ orderItems[1].quantity = 2 /\ orderItems[1].unitPrice = 10 * Scale
  /\ orderItems[2].quantity = 1 /\ orderItems[2].unitPrice = 5 * Scale
  /\ calculateTotal(orderItems) = 25 * Scale

\* the list updateItem(index, productId, v) makes of the current one
AfterProductId(index, v) == updateOrderItem(orderItems, index, "productId", v)

\* C6 as stated: updateItem(index, productId, v) sets the item's productId
\* to v; when v is a catalog product the unitPrice becomes that product's
\* price, otherwise the unitPrice stays.
C6_Original ==
  \A index \in DOMAIN orderItems, v \in ProductIds \cup {UnknownProductId} :
    /\ AfterProductId(index, v)[index].productId = v
    /\ InCatalog(v) => CatalogPrice(v, AfterProductId(index, v)[index].unitPrice)
    /\ ~InCatalog(v) =>
          AfterProductId(index, v)[index].unitPrice = orderItems[index].unitPrice

\* C6 amended: when v is a catalog product, the item's productId becomes v
\* and its unitPrice that product's price, whatever the unitPrice was; when
\* v is no catalog product the item keeps its productId and its unitPrice.
C6_Amended ==
  \A index \in DOMAIN orderItems, v \in ProductIds \cup {UnknownProductId} :
    /\ InCatalog(v) =>
          /\ AfterProductId(index, v)[index].productId = v
          /\ CatalogPrice(v, AfterProductId(index, v)[index].unitPrice)
    /\ ~InCatalog(v) =>
          /\ AfterProductId(index, v)[index].productId = orderItems[index].productId
          /\ AfterProductId(index, v)[index].unitPrice = orderItems[index].unitPrice

\* an item holds product A at a unit price typed by hand, and selecting B
\* for it puts B's catalog price in its place
C6_Witness ==
  \E i \in DOMAIN orderItems :
    /\ orderItems[i].productId = "A"
    /\ orderItems[i].unitPrice = 250
    /\ AfterProductId(i, "B")[i].unitPrice = 5 * Scale

\* C8: in every reachable draft every item has quantity >= 1 and
\* unitPrice >= 0, whatever is typed into the quantity and unit-price inputs.
C8_ItemsInRange ==
  \A i \in DOMAIN orderItems :
    orderItems[i].quantity >= 1 /\ orderItems[i].unitPrice >= 0

\* every item of list r but the one at index is what it is in the draft
OthersKept(r, index) ==
  /\ Len(r) = Len(orderItems)
  /\ \A j \in DOMAIN orderItems : j # index => r[j] = orderItems[j]

\* removeItem(index) drops item index and keeps the others in order
RemoveTouchesTarget(index) ==
  LET r == removeOrderItem(orderItems, index)
  IN  /\ Len(r) = Len(orderItems) - 1
      /\ r = SubSeq(orderItems, 1, index - 1)
               \o SubSeq(orderItems, index + 1, Len(orderItems))

\* addItem puts the fresh item last and keeps the others
AddTouchesEnd ==
  LET r == addOrderItem(orderItems)
  IN  /\ Len(r) = Len(orderItems) + 1
      /\ r[Len(r)] = [productId |-> "", quantity |-> 1, unitPrice |-> 0]
      /\ SubSeq(r, 1, Len(orderItems)) = orderItems

\* updateItem(index, field, value), field quantity or unitPrice, changes
\* that field of item index only
UpdateTouchesField(index, field, value) ==
  LET r == updateOrderItem(orderItems, index, field, value)
  IN  /\ OthersKept(r, index)
      /\ r[index][field] = value
      /\ \A g \in {"productId", "quantity", "unitPrice"} \ {field} :
            r[index][g] = orderItems[index][g]

Awaiting == pc \in {"await_order", "await_items"}

\* a request is put in flight by this step
Issues(table) == request'.table = table /\ request' # request

\* C1: submit() with an empty item list issues no data-store call and does
\* not navigate; it ends with the validation message in error and
\* submitting false.
C1_EmptySubmit ==
  [][ (HandleSubmit /\ Len(orderItems) = 0) =>
        /\ request' = NoRequest
        /\ pc' = "idle"
        /\ UNCHANGED <<orders, order_items, route>>
        /\ error' = "Please add at least one item to the order"
        /\ isSubmitting' = FALSE
    ]_vars

\* the validation message is on screen, nothing is in flight, the store is empty
C1_Witness ==
  /\ error = "Please add at least one item to the order"
  /\ Len(orderItems) = 0
  /\ ~isSubmitting
  /\ request = NoRequest
  /\ orders = {}

\* C2: the order_items insert is issued only once the orders insert of the
\* same attempt has returned a created order; when the orders insert fails
\* the attempt issues no order_items insert, does not navigate, shows the
\* store's message (or the fallback) and resets submitting.
C2_ItemsAfterOrder ==
  [][ /\ Issues("order_items") =>
           /\ pc = "await_order"
           /\ request.table = "orders"
           /\ Cardinality(orders') = Cardinality(orders) + 1
           /\ \A i \in DOMAIN request'.records :
                request'.records[i].order_id \in orders' \ orders
      /\ \A message \in StoreMessages :
           OrderInsertError(message) =>
             /\ request' = NoRequest
             /\ pc' = "idle"
             /\ UNCHANGED <<orders, order_items, route>>
             /\ error' = (IF message = "" THEN "An error occurred" ELSE message)
             /\ isSubmitting' = FALSE
    ]_vars

\* an orders insert has failed: its message is shown, no order exists
C2_Witness ==
  /\ error = "insert failed"
  /\ orders = {}
  /\ order_items = <<>>
  /\ Len(orderItems) > 0
  /\ ~isSubmitting
  /\ pc = "idle"

\* the rows of table order_items that belong to order id
RowsOf(id) == {i \in DOMAIN order_items : order_items[i].order_id = id}

\* C3: when the orders insert succeeded and the order_items insert fails,
\* an error is shown, nothing navigates and nothing is deleted: the order
\* stays in the store without line items, and a retry of submit issues a
\* new orders insert, which creates a second order record.
C3_NoRollback ==
  [][ /\ \A message \in StoreMessages :
           ItemsInsertError(message) =>
             /\ error' # Null
             /\ route' = NoRoute
             /\ orders' = orders
             /\ order.id \in orders'
             /\ RowsOf(order.id)' = {}
             /\ request' = NoRequest
      /\ (HandleSubmit /\ Len(orderItems) > 0) => Issues("orders")
      /\ OrderInsertOk =>
           /\ orders \subseteq orders'
           /\ Cardinality(orders') = Cardinality(orders) + 1
    ]_vars

\* after a failed order_items insert the retry has created a second order;
\* neither order has line items
C3_Witness ==
  /\ Cardinality(orders) = 2
  /\ order_items = <<>>
  /\ pc = "await_items"
  /\ route = NoRoute

\* C4: every submit attempt whose requests are answered reaches a terminal
\* path, submitting is false after each terminal path, and submitting is
\* true only while an attempt is in progress.
C4_SubmittingResets ==
  /\ [](isSubmitting => Awaiting)
  /\ [][ (HandleSubmit /\ Len(orderItems) = 0) => ~isSubmitting' ]_vars
  /\ [][ (Awaiting /\ ~Awaiting') => ~isSubmitting' ]_vars
  /\ (Awaiting ~> (~Awaiting /\ ~isSubmitting))

\* an attempt has ended in navigation and submitting is false again
C4_Witness ==
  /\ route # NoRoute
  /\ ~Awaiting
  /\ ~isSubmitting
  /\ order_items # <<>>

\* product of the catalog with less stock than the item asks for
ShortOfStock(item) ==
  \E k \in DOMAIN products :
    products[k].id = item.productId /\ products[k].stock_quantity < item.quantity

\* C7: a non-empty item list is all submit needs to reach the store: with
\* an item in the list and no submit in progress, submit issues the orders
\* insert, also when an item asks for more than the stock or has no product
\* yet; the stock warning of an item shows exactly when its product is
\* found and has less stock than the quantity.
C7_OnlyNonEmpty ==
  /\ [](\A i \in DOMAIN orderItems :
          StockWarning(orderItems[i]) <=> ShortOfStock(orderItems[i]))
  /\ []((Mounted /\ ~isSubmitting /\ Len(orderItems) > 0) => ENABLED HandleSubmit)
  /\ [][ (HandleSubmit /\ Len(orderItems) > 0) =>
           (Issues("orders") /\ pc' = "await_order") ]_vars

\* the orders insert is in flight for a list with an item short of stock
\* and an item without product
C7_Witness ==
  /\ pc = "await_order"
  /\ request.table = "orders"
  /\ \E i \in DOMAIN closure.orderItems : ShortOfStock(closure.orderItems[i])
  /\ \E i \in DOMAIN closure.orderItems : closure.orderItems[i].productId = ""

\* the sum of the total_price of rows
RECURSIVE SumTotalPrice(_)
SumTotalPrice(rows) ==
  IF rows = <<>> THEN 0 ELSE Head(rows).total_price + SumTotalPrice(Tail(rows))

\* rows are the line items of list items
RowsMatch(rows, items) ==
  /\ Len(rows) = Len(items)
  /\ \A i \in DOMAIN items :
       /\ rows[i].product_id = items[i].productId
       /\ rows[i].quantity = items[i].quantity
       /\ rows[i].unit_price = items[i].unitPrice

\* C10: in an attempt that issues both inserts, the total_amount of the
\* orders insert is the sum of the total_price of the order_items insert,
\* and the line items sent are the draft items as they were when submit
\* started, whatever the user edits while the orders insert is in flight;
\* submit changes none of items, customerId, paymentMethod, notes.
C10_SnapshotSent ==
  /\ [][ (HandleSubmit /\ Len(orderItems) > 0) => closure'.orderItems = orderItems ]_vars
  /\ [][ (Awaiting /\ Awaiting') => closure' = closure ]_vars
  /\ [][ Issues("order_items") =>
           /\ RowsMatch(request'.records, closure.orderItems)
           /\ request.records[1].total_amount = SumTotalPrice(request'.records)
           /\ order'.total_amount = SumTotalPrice(request'.records) ]_vars
  /\ [][ (HandleSubmit \/ StoreAnswers) => UNCHANGED draft ]_vars

\* the order_items insert is in flight and the draft is no longer the list
\* the attempt started with
C10_Witness ==
  /\ pc = "await_items"
  /\ orderItems # closure.orderItems
  /\ calculateTotal(orderItems) # order.total_amount
  /\ RowsMatch(request.records, closure.orderItems)

====
